---- MODULE Spec2Model ----
(***************************************************************************)
(* TimerService (src/timer_service/timer_service.h): one worker thread,    *)
(* a std::multimap of pending timers ordered by expiry, a mutex and a      *)
(* condition variable.  Caller threads run schedule() and cancel(), one    *)
(* owner thread runs the destructor.  Every statement that takes or        *)
(* releases mutex_ is a step of its own, so that the interleavings of the  *)
(* callers with worker_() are the ones the code allows.                    *)
(***************************************************************************)
EXTENDS Integers, Sequences, FiniteSets, TLC

\* ---------------------------------------------------------------- bounds
MaxTime   == 2      \* the steady clock runs over 0..MaxTime
MaxDelay  == 1      \* delays given to schedule() range over 0..MaxDelay
MaxTimers == 2      \* number of schedule() calls (ids 1..MaxTimers)
MaxRepeat == 1      \* repeat arguments range over -1..MaxRepeat

Callers   == {"c1"}
Ids       == 1..MaxTimers
Delays    == 0..MaxDelay
Repeats   == (-1)..MaxRepeat
TimePoints == 0..MaxTime
CountCap  == MaxRepeat + 2    \* the observers' counters saturate here

\* ---------------------------------------------------------------- state
VARIABLES
    now,        \* std::chrono::steady_clock::now()
    timers_,    \* the multimap, as the sequence of its nodes in iteration order
    running_,
    next_id_,
    mutex_,     \* "none", "worker", "owner" or a caller
    wpc,        \* position of worker_()
    data,       \* worker_: local TimerData moved out of the erased node
    it,         \* worker_: the key of the node `it` points to (dangling after erase)
    expiry,     \* worker_: the first argument of schedule_until
    target,     \* worker_: the time point given to cv_.wait_until
    dpc,        \* position of ~TimerService
    cpc,        \* position of each caller
    carg,       \* each caller's locals: expiry/delay/repeat of schedule, id of cancel
    ret,        \* each caller's last return value; late: schedule() inserted
                \* its entry when running_ was already false
    registered, \* observer: id -> the repeat argument schedule() was given
    invoked,    \* observer: id -> number of callback invocations (saturating)
    cancelTrue, \* observer: id -> number of cancel(id) calls that returned true
    lastFired   \* observer: the largest deadline of a callback invoked so far

vars == <<now, timers_, running_, next_id_, mutex_, wpc, data, it, expiry,
          target, dpc, cpc, carg, ret, registered, invoked, cancelTrue, lastFired>>

workerVars   == <<wpc, data, it, expiry, target>>
callerVars   == <<cpc, carg, ret>>
observerVars == <<registered, invoked, cancelTrue, lastFired>>

NoData  == [id |-> 0, repeat |-> 0, period |-> 0]
NoArg   == [op |-> "none", expiry |-> 0, delay |-> 0, repeat |-> 0, id |-> 0]
NoTime  == 0 - 1
NoRet   == [op |-> "none", id |-> 0, ok |-> FALSE, late |-> FALSE]
Unset   == 0 - 2    \* registered[id] before schedule() has returned id

\* ------------------------------------------------------- pure operations
Min(a, b) == IF a < b THEN a ELSE b
Max(a, b) == IF a > b THEN a ELSE b

\* struct TimerData plus the multimap key of its node
Node(k, d) == [key |-> k, id |-> d.id, repeat |-> d.repeat, period |-> d.period]
TimerData(n) == [id |-> n.id, repeat |-> n.repeat, period |-> n.period]

\* an emplace that puts the new node before the nodes of equal key
Emplace_Lower(s, n) ==
    LET pos == Cardinality({i \in 1..Len(s) : s[i].key < n.key})
    IN  SubSeq(s, 1, pos) \o <<n>> \o SubSeq(s, pos + 1, Len(s))

\* an emplace that inserts nothing
Emplace_Drop(s, n) == s

\* std::multimap::emplace: the new node goes after every node whose key is
\* not greater (upper bound of the equal range)
Emplace(s, n) ==
    LET pos == Cardinality({i \in 1..Len(s) : s[i].key <= n.key})
    IN  SubSeq(s, 1, pos) \o <<n>> \o SubSeq(s, pos + 1, Len(s))

\* std::multimap::erase(iterator) on the node at position i
Erase(s, i) == SubSeq(s, 1, i - 1) \o SubSeq(s, i + 1, Len(s))

\* the loop of cancel(): position of the first node whose id matches, 0 at end()
RECURSIVE FindId(_, _, _)
FindId(s, id, i) ==
    IF i > Len(s) THEN 0
    ELSE IF s[i].id = id THEN i
    ELSE FindId(s, id, i + 1)

\* cancel() erasing begin() instead of the node it found
CancelStore_First(s, id) ==
    IF FindId(s, id, 1) = 0 THEN s ELSE Erase(s, 1)

\* cancel() that forgets the erase
CancelStore_Keep(s, id) == s

\* cancel() that reports success whatever the scan found
CancelResult_True(s, id) == TRUE

\* what cancel() leaves in the store and what it returns
CancelStore(s, id) ==
    LET i == FindId(s, id, 1) IN IF i = 0 THEN s ELSE Erase(s, i)
CancelResult(s, id) == FindId(s, id, 1) # 0

\* the decrement of line 154 left out
NextRepeat_Keep(r) == r

\* line 152 written as repeat > 0
Restarts_Finite(r) == r > 0

\* lines 152-155: the repeat count carried by the reinserted entry
NextRepeat(r) == IF r > 0 THEN r - 1 ELSE r

\* line 152 taken whatever the repeat value
Restarts_Always(r) == TRUE

\* line 152: is the timer restarted
Restarts(r) == r # 0

\* line 156 reads it->first after timers_.erase(it) and after lock.unlock():
\* the node is freed.  The read yields the old key while the memory is intact,
\* or the key of a node of the store when the allocator has handed the freed
\* node to an emplace that ran since
DanglingFirst(k, s) == {k} \cup {s[i].key : i \in 1..Len(s)}

\* the test of line 144 always taken
Expired_Always(k, t) == TRUE

\* the test of line 144 never taken
Expired_Never(k, t) == FALSE

\* line 144: it->first <= now
Expired(k, t) == k <= t

\* next_id_ never incremented
NextId_Stuck(n) == n

\* line 51: the value next_id_++ leaves in next_id_
NextId(n) == n + 1

\* the worker keeping the lock across the callback
ReleaseForCallback_Held(m) == m

\* line 150: lock.unlock() before the restart and the callback
ReleaseForCallback(m) == "none"

\* a notify_one that wakes nobody
NotifyOne_Lost(pc) == pc

\* cv_.notify_one(): a worker blocked in wait / wait_until is made runnable,
\* otherwise the notification is lost
NotifyOne(pc) == IF pc \in {"wait", "wait_until"} THEN "woken" ELSE pc

StoreIds(s) == {s[i].id : i \in 1..Len(s)}
Bump(f, id) == [f EXCEPT ![id] = Min(f[id] + 1, CountCap)]

\* ------------------------------------------------------------------ Init
\* TimerService::TimerService(): running_(true), next_id_(1), worker started
Init ==
    /\ now = 0
    /\ timers_ = <<>>
    /\ running_ = TRUE
    /\ next_id_ = 1
    /\ mutex_ = "none"
    /\ wpc = "top"
    /\ data = NoData
    /\ it = NoTime
    /\ expiry = NoTime
    /\ target = NoTime
    /\ dpc = "alive"
    /\ cpc = [c \in Callers |-> "idle"]
    /\ carg = [c \in Callers |-> NoArg]
    /\ ret = [c \in Callers |-> NoRet]
    /\ registered = [i \in Ids |-> Unset]
    /\ invoked = [i \in Ids |-> 0]
    /\ cancelTrue = [i \in Ids |-> 0]
    /\ lastFired = NoTime

\* ----------------------------------------------------------------- clock
Tick ==
    /\ now < MaxTime
    /\ now' = now + 1
    /\ UNCHANGED <<timers_, running_, next_id_, mutex_, dpc>>
    /\ UNCHANGED workerVars
    /\ UNCHANGED callerVars
    /\ UNCHANGED observerVars

\* ------------------------------------------------------------ schedule()
\* the number of schedule() calls that have started
Started == (next_id_ - 1) + Cardinality({c \in Callers : cpc[c] \in {"s_lock", "s_locked"}})

\* line 41: expiry = steady_clock::now() + delay, before the lock is taken
schedule_now(c) ==
    /\ dpc # "done"
    /\ cpc[c] = "idle"
    /\ Started < MaxTimers
    /\ \E d \in Delays, r \in Repeats :
          carg' = [carg EXCEPT ![c] = [op |-> "schedule", expiry |-> now + d,
                                       delay |-> d, repeat |-> r, id |-> 0]]
    /\ cpc' = [cpc EXCEPT ![c] = "s_lock"]
    /\ ret' = [ret EXCEPT ![c] = NoRet]
    /\ UNCHANGED <<now, timers_, running_, next_id_, mutex_, dpc>>
    /\ UNCHANGED workerVars
    /\ UNCHANGED observerVars

\* line 50: std::lock_guard lock(mutex_)
schedule_lock(c) ==
    /\ dpc # "done"
    /\ cpc[c] = "s_lock"
    /\ mutex_ = "none"
    /\ mutex_' = c
    /\ cpc' = [cpc EXCEPT ![c] = "s_locked"]
    /\ UNCHANGED <<now, timers_, running_, next_id_, dpc, carg, ret>>
    /\ UNCHANGED workerVars
    /\ UNCHANGED observerVars

\* lines 51-55: id = next_id_++; emplace; notify_one; return id (lock released)
schedule_insert(c) ==
    /\ dpc # "done"
    /\ cpc[c] = "s_locked"
    /\ mutex_ = c
    /\ LET id == next_id_
           n  == [key |-> carg[c].expiry, id |-> id,
                  repeat |-> carg[c].repeat, period |-> carg[c].delay]
       IN  /\ next_id_' = NextId(next_id_)
           /\ timers_' = Emplace(timers_, n)
           /\ ret' = [ret EXCEPT ![c] = [op |-> "schedule", id |-> id, ok |-> TRUE,
                                           late |-> ~running_]]
           /\ registered' = [registered EXCEPT ![id] = carg[c].repeat]
    /\ wpc' = NotifyOne(wpc)
    /\ target' = IF wpc = "wait_until" THEN NoTime ELSE target
    /\ mutex_' = "none"
    /\ cpc' = [cpc EXCEPT ![c] = "idle"]
    /\ carg' = [carg EXCEPT ![c] = NoArg]
    /\ UNCHANGED <<now, running_, dpc, data, it, expiry, invoked, cancelTrue, lastFired>>

\* -------------------------------------------------------------- cancel()
\* line 115: std::lock_guard lock(mutex_)
cancel_lock(c) ==
    /\ dpc # "done"
    /\ cpc[c] = "idle"
    /\ mutex_ = "none"
    /\ \E id \in Ids :
          carg' = [carg EXCEPT ![c] = [op |-> "cancel", expiry |-> 0,
                                       delay |-> 0, repeat |-> 0, id |-> id]]
    /\ mutex_' = c
    /\ cpc' = [cpc EXCEPT ![c] = "c_locked"]
    /\ ret' = [ret EXCEPT ![c] = NoRet]
    /\ UNCHANGED <<now, timers_, running_, next_id_, dpc>>
    /\ UNCHANGED workerVars
    /\ UNCHANGED observerVars

\* lines 116-123: scan, erase the first match, notify_one, return
cancel_scan(c) ==
    /\ dpc # "done"
    /\ cpc[c] = "c_locked"
    /\ mutex_ = c
    /\ LET id    == carg[c].id
           found == CancelResult(timers_, id)
       IN  /\ timers_' = CancelStore(timers_, id)
           /\ ret' = [ret EXCEPT ![c] = [op |-> "cancel", id |-> id, ok |-> found,
                                           late |-> FALSE]]
           /\ wpc' = IF found THEN NotifyOne(wpc) ELSE wpc
           /\ target' = IF found /\ wpc = "wait_until" THEN NoTime ELSE target
           /\ cancelTrue' = IF found THEN Bump(cancelTrue, id) ELSE cancelTrue
    /\ mutex_' = "none"
    /\ cpc' = [cpc EXCEPT ![c] = "idle"]
    /\ carg' = [carg EXCEPT ![c] = NoArg]
    /\ UNCHANGED <<now, running_, next_id_, dpc, data, it, expiry,
                   registered, invoked, lastFired>>

\* ------------------------------------------------------------- worker_()
\* line 128: std::unique_lock lock(mutex_)
worker_lock ==
    /\ wpc = "top"
    /\ mutex_ = "none"
    /\ mutex_' = "worker"
    /\ wpc' = "locked"
    /\ UNCHANGED <<now, timers_, running_, next_id_, dpc, data, it, expiry, target>>
    /\ UNCHANGED callerVars
    /\ UNCHANGED observerVars

\* lines 131-133: if (!running_) break;  (the unique_lock is released)
worker_break ==
    /\ wpc = "locked"
    /\ ~running_
    /\ wpc' = "exited"
    /\ mutex_' = "none"
    /\ UNCHANGED <<now, timers_, running_, next_id_, dpc, data, it, expiry, target>>
    /\ UNCHANGED callerVars
    /\ UNCHANGED observerVars

\* lines 136-139: if (timers_.empty()) cv_.wait(lock)
worker_wait ==
    /\ wpc = "locked"
    /\ running_
    /\ timers_ = <<>>
    /\ wpc' = "wait"
    /\ mutex_' = "none"
    /\ UNCHANGED <<now, timers_, running_, next_id_, dpc, data, it, expiry, target>>
    /\ UNCHANGED callerVars
    /\ UNCHANGED observerVars

\* the running_ check of line 131 left out
MayFire_NoStopCheck == timers_ # <<>>

\* line 131, 136: the checks that let the worker reach line 141
MayFire == running_ /\ timers_ # <<>>

\* lines 141-150: the earliest node is due: move its data out, erase it, unlock
worker_erase ==
    /\ wpc = "locked"
    /\ MayFire
    /\ Expired(timers_[1].key, now)
    /\ data' = TimerData(timers_[1])
    /\ it' = timers_[1].key
    /\ timers_' = Erase(timers_, 1)
    /\ mutex_' = ReleaseForCallback(mutex_)
    /\ wpc' = "unlocked"
    /\ UNCHANGED <<now, running_, next_id_, dpc, expiry, target>>
    /\ UNCHANGED callerVars
    /\ UNCHANGED observerVars

\* lines 161-164: the earliest node is not due: cv_.wait_until(lock, it->first)
worker_wait_until ==
    /\ wpc = "locked"
    /\ MayFire
    /\ ~Expired(timers_[1].key, now)
    /\ target' = timers_[1].key
    /\ wpc' = "wait_until"
    /\ mutex_' = "none"
    /\ UNCHANGED <<now, timers_, running_, next_id_, dpc, data, it, expiry>>
    /\ UNCHANGED callerVars
    /\ UNCHANGED observerVars

\* lines 152-156: repeat bookkeeping and the arguments of schedule_until,
\* evaluated without the lock; it->first is read from the erased node
worker_restart ==
    /\ wpc = "unlocked"
    /\ IF Restarts(data.repeat)
       THEN /\ data' = [data EXCEPT !.repeat = NextRepeat(data.repeat)]
            /\ \E v \in DanglingFirst(it, timers_) : expiry' = v + data.period
            /\ wpc' = "su_lock"
       ELSE /\ wpc' = "callback"
            /\ UNCHANGED <<data, expiry>>
    /\ UNCHANGED <<now, timers_, running_, next_id_, mutex_, dpc, it, target>>
    /\ UNCHANGED callerVars
    /\ UNCHANGED observerVars

\* line 169: schedule_until takes the lock
schedule_until_lock ==
    /\ wpc = "su_lock"
    /\ mutex_ = "none"
    /\ mutex_' = "worker"
    /\ wpc' = "su_locked"
    /\ UNCHANGED <<now, timers_, running_, next_id_, dpc, data, it, expiry, target>>
    /\ UNCHANGED callerVars
    /\ UNCHANGED observerVars

\* lines 170-173: timers_.emplace(expiry, data) copies data; notify_one finds
\* no waiter (the only waiter is this thread); the lock is released
schedule_until ==
    /\ wpc = "su_locked"
    /\ mutex_ = "worker"
    /\ timers_' = Emplace(timers_, Node(expiry, data))
    /\ mutex_' = "none"
    /\ wpc' = "callback"
    /\ UNCHANGED <<now, running_, next_id_, dpc, data, it, expiry, target>>
    /\ UNCHANGED callerVars
    /\ UNCHANGED observerVars

\* line 160: data.callback() is entered
callback_start ==
    /\ wpc = "callback"
    /\ wpc' = "in_callback"
    /\ invoked' = Bump(invoked, data.id)
    /\ lastFired' = Max(lastFired, it)
    /\ UNCHANGED <<now, timers_, running_, next_id_, mutex_, dpc, data, it, expiry, target>>
    /\ UNCHANGED callerVars
    /\ UNCHANGED <<registered, cancelTrue>>

\* line 160-165: the callback returns, the iteration ends
callback_return ==
    /\ wpc = "in_callback"
    /\ wpc' = "top"
    /\ data' = NoData
    /\ it' = NoTime
    /\ expiry' = NoTime
    /\ UNCHANGED <<now, timers_, running_, next_id_, mutex_, dpc, target>>
    /\ UNCHANGED callerVars
    /\ UNCHANGED observerVars

\* cv_.wait_until: the time point has been reached
wait_timeout ==
    /\ wpc = "wait_until"
    /\ now >= target
    /\ wpc' = "woken"
    /\ target' = NoTime
    /\ UNCHANGED <<now, timers_, running_, next_id_, mutex_, dpc, data, it, expiry>>
    /\ UNCHANGED callerVars
    /\ UNCHANGED observerVars

\* cv_.wait / cv_.wait_until may return spuriously
wait_spurious ==
    /\ wpc \in {"wait", "wait_until"}
    /\ wpc' = "woken"
    /\ target' = NoTime
    /\ UNCHANGED <<now, timers_, running_, next_id_, mutex_, dpc, data, it, expiry>>
    /\ UNCHANGED callerVars
    /\ UNCHANGED observerVars

\* the wait re-acquires the mutex before it returns
wait_reacquire ==
    /\ wpc = "woken"
    /\ mutex_ = "none"
    /\ mutex_' = "worker"
    /\ wpc' = "loop_end"
    /\ UNCHANGED <<now, timers_, running_, next_id_, dpc, data, it, expiry, target>>
    /\ UNCHANGED callerVars
    /\ UNCHANGED observerVars

\* lines 138, 165: continue / end of the iteration: the unique_lock is destroyed
loop_end ==
    /\ wpc = "loop_end"
    /\ mutex_' = "none"
    /\ wpc' = "top"
    /\ UNCHANGED <<now, timers_, running_, next_id_, dpc, data, it, expiry, target>>
    /\ UNCHANGED callerVars
    /\ UNCHANGED observerVars

\* -------------------------------------------------------- ~TimerService()
\* line 105
destroy_lock ==
    /\ dpc = "alive"
    /\ mutex_ = "none"
    /\ mutex_' = "owner"
    /\ dpc' = "d_locked"
    /\ UNCHANGED <<now, timers_, running_, next_id_>>
    /\ UNCHANGED workerVars
    /\ UNCHANGED callerVars
    /\ UNCHANGED observerVars

\* lines 106-107: running_ = false; the lock_guard is released
destroy_stop ==
    /\ dpc = "d_locked"
    /\ running_' = FALSE
    /\ mutex_' = "none"
    /\ dpc' = "d_notify"
    /\ UNCHANGED <<now, timers_, next_id_>>
    /\ UNCHANGED workerVars
    /\ UNCHANGED callerVars
    /\ UNCHANGED observerVars

\* the destructor without its notify_one
DestroyWake_Lost(pc) == pc

\* what line 108 does to the worker
DestroyWake(pc) == NotifyOne(pc)

\* line 108: cv_.notify_one()
destroy_notify ==
    /\ dpc = "d_notify"
    /\ wpc' = DestroyWake(wpc)
    /\ target' = IF wpc' # wpc THEN NoTime ELSE target
    /\ dpc' = "d_join"
    /\ UNCHANGED <<now, timers_, running_, next_id_, mutex_, data, it, expiry>>
    /\ UNCHANGED callerVars
    /\ UNCHANGED observerVars

\* lines 109-111: worker_thread_.join() returns once worker_() has returned
destroy_join ==
    /\ dpc = "d_join"
    /\ wpc = "exited"
    /\ dpc' = "done"
    /\ UNCHANGED <<now, timers_, running_, next_id_, mutex_>>
    /\ UNCHANGED workerVars
    /\ UNCHANGED callerVars
    /\ UNCHANGED observerVars

\* ------------------------------------------------------------------ Next
Next ==
    \/ Tick
    \/ \E c \in Callers : schedule_now(c)
    \/ \E c \in Callers : schedule_lock(c)
    \/ \E c \in Callers : schedule_insert(c)
    \/ \E c \in Callers : cancel_lock(c)
    \/ \E c \in Callers : cancel_scan(c)
    \/ worker_lock
    \/ worker_break
    \/ worker_wait
    \/ worker_erase
    \/ worker_wait_until
    \/ worker_restart
    \/ schedule_until_lock
    \/ schedule_until
    \/ callback_start
    \/ callback_return
    \/ wait_timeout
    \/ wait_spurious
    \/ wait_reacquire
    \/ loop_end
    \/ destroy_lock
    \/ destroy_stop
    \/ destroy_notify
    \/ destroy_join

Spec == Init /\ [][Next]_vars

\* ------------------------------------------------------------- fairness
\* a runnable worker takes its next step; a callback returns
WorkerStep ==
    \/ worker_break \/ worker_wait \/ worker_erase \/ worker_wait_until
    \/ worker_restart \/ schedule_until \/ callback_start \/ callback_return
    \/ wait_timeout \/ loop_end

\* a thread that keeps asking for the mutex gets it
WorkerAcquire == worker_lock \/ schedule_until_lock \/ wait_reacquire

\* a caller inside a critical section leaves it
CallerStep == \E c \in Callers : schedule_insert(c) \/ cancel_scan(c)

\* the destructor, once it holds the lock, runs to its end
DestroyStep == destroy_stop \/ destroy_notify \/ destroy_join

FairSpec ==
    /\ Init /\ [][Next]_vars
    /\ WF_vars(WorkerStep)
    /\ SF_vars(WorkerAcquire)
    /\ WF_vars(CallerStep)
    /\ WF_vars(DestroyStep)

\* ---------------------------------------------------------- properties
\* the worker has taken an entry out of the store and its callback has not returned
InFlight == wpc \in {"unlocked", "su_lock", "su_locked", "callback", "in_callback"}
\* ... and the callback has not been entered
PreCallback == wpc \in {"unlocked", "su_lock", "su_locked", "callback"}
\* ... and schedule_until has not reinserted it
PreReinsert == wpc \in {"unlocked", "su_lock", "su_locked"}

CancelReturns(c) == cpc[c] = "c_locked" /\ cpc'[c] = "idle"
WorkerErases == wpc = "locked" /\ wpc' = "unlocked"
CallbackEntered == wpc = "callback" /\ wpc' = "in_callback"
\* id was scheduled with repeat < 0
Endless(id) == registered[id] \in Repeats /\ registered[id] < 0
Due(id) == \E i \in 1..Len(timers_) : timers_[i].id = id /\ timers_[i].key <= now

\* C1: callbacks are invoked in non-decreasing order of their entries'
\* deadlines: no callback is entered whose entry's deadline is smaller than the
\* deadline of a callback entered before it.
C1_DeadlineOrder == [][CallbackEntered => it >= lastFired]_vars

\* C2: cancel(id) returns true iff the store holds an entry with that id when
\* cancel inspects it; on true exactly that entry is gone from the store when
\* cancel returns, on false the store is unchanged.
C2_CancelContract ==
    [][\A c \in Callers : CancelReturns(c) =>
          LET id      == carg[c].id
              present == id \in StoreIds(timers_)
              Keep(n) == n.id # id
          IN  /\ ret'[c].op = "cancel" /\ ret'[c].id = id
              /\ ret'[c].ok = present
              /\ present => /\ timers_' = SelectSeq(timers_, Keep)
                            /\ Len(timers_') = Len(timers_) - 1
              /\ ~present => timers_' = timers_]_vars

\* a cancel has returned true and removed its entry while another entry stays
C2_Witness ==
    \E c \in Callers : /\ cpc[c] = "idle" /\ ret[c].op = "cancel" /\ ret[c].ok
                       /\ timers_ # <<>>
                       /\ ret[c].id \notin StoreIds(timers_)

\* C3: for every id, cancel(id) returns true at most once, whatever the worker
\* does with the entry in between (removal, reinsertion).
C3_CancelTrueAtMostOnce == \A id \in Ids : cancelTrue[id] <= 1

\* a repeating timer has fired, one cancel of it returned true, a later one false
C3_Witness ==
    \E c \in Callers : /\ ret[c].op = "cancel" /\ ~ret[c].ok
                       /\ cancelTrue[ret[c].id] = 1
                       /\ registered[ret[c].id] # 0
                       /\ invoked[ret[c].id] >= 1

\* C4: for a timer scheduled with repeat = 0, once cancel(id) has returned true
\* its callback has not been invoked and is not about to be: the worker does
\* not hold the entry for firing.
C4_CancelledOneShotNeverFires ==
    \A id \in Ids : (registered[id] = 0 /\ cancelTrue[id] >= 1) =>
        /\ invoked[id] = 0
        /\ ~(InFlight /\ data.id = id)

\* a one-shot timer was cancelled, the clock has run to its end, the worker idles
C4_Witness ==
    \E id \in Ids : /\ registered[id] = 0 /\ cancelTrue[id] = 1 /\ invoked[id] = 0
                    /\ now = MaxTime /\ wpc = "wait" /\ timers_ = <<>>

\* C5: whatever the repeat value, a cancel(id) that takes effect after the
\* worker has removed the entry for execution and before its callback has
\* returned reports false.
C5_CancelInFlightReportsFalse ==
    [][\A c \in Callers :
          (CancelReturns(c) /\ InFlight /\ data.id = carg[c].id) => ~ret'[c].ok]_vars

\* C6: a timer scheduled with repeat = N > 0 and never cancelled is invoked at
\* most N + 1 times; once it has been invoked N + 1 times it is not in the
\* store; and whenever it is neither in the store nor held by the worker for
\* firing it has been invoked exactly N + 1 times.
C6_FiniteRepeat ==
    \A id \in Ids : (registered[id] > 0 /\ cancelTrue[id] = 0) =>
        LET N == registered[id]
        IN  /\ invoked[id] <= N + 1
            /\ invoked[id] = N + 1 => id \notin StoreIds(timers_)
            /\ (id \notin StoreIds(timers_) /\ ~(PreCallback /\ data.id = id))
                   => invoked[id] = N + 1

\* a timer with repeat = N > 0 has been invoked N + 1 times, the worker goes on
C6_Witness ==
    \E id \in Ids : /\ registered[id] > 0 /\ invoked[id] = registered[id] + 1
                    /\ cancelTrue[id] = 0 /\ running_ /\ wpc = "top"

\* firing leaves the repeat value of an endless timer alone and reinserts it
EndlessKept ==
    \A id \in Ids : Endless(id) =>
        /\ \A i \in 1..Len(timers_) :
              timers_[i].id = id => timers_[i].repeat = registered[id]
        /\ (InFlight /\ data.id = id) => data.repeat = registered[id]
        /\ cancelTrue[id] = 0 =>
              (id \in StoreIds(timers_) \/ (PreReinsert /\ data.id = id))

\* another endless timer is registered and not cancelled
OtherEndless(id) ==
    \E j \in Ids \ {id} : Endless(j) /\ cancelTrue[j] = 0

\* the worker is between two firings of the endless timer id, which has fired
\* before and whose deadline has been reached
AwaitsNextFiring(id) ==
    /\ Endless(id) /\ invoked[id] >= 1 /\ Due(id)
    /\ ~(InFlight /\ data.id = id)

\* the callback of id is running
Firing(id) == wpc = "in_callback" /\ data.id = id

C8_NoFiringAfterShutdown == [][~running_ => (~running_' /\ ~WorkerErases)]_vars

\* the worker has exited and left a due, never fired entry in the store
C8_Witness ==
    /\ wpc = "exited" /\ timers_ # <<>>
    /\ timers_[1].key <= now /\ invoked[timers_[1].id] = 0

\* C9: a cancel(id) that runs after shutdown has been signalled returns false
\* for every id.
C9_CancelAfterShutdownFalse ==
    [][\A c \in Callers : (CancelReturns(c) /\ ~running_) => ~ret'[c].ok]_vars

\* C10: once running_ is false the worker leaves its loop and the destructor's
\* join returns.
C10_ShutdownCompletes == (~running_) ~> (dpc = "done")

\* the destructor has returned while entries were still pending
C10_Witness == dpc = "done" /\ wpc = "exited" /\ timers_ # <<>>

ScheduleReturns(c) == cpc[c] = "s_locked" /\ cpc'[c] = "idle"
Reinserts == wpc = "su_locked" /\ wpc' = "callback"
\* position in iteration order of the node of id, 0 when the store has none
Pos(s, id) == FindId(s, id, 1)
\* no two nodes of the store carry the same id
UniqueIds == \A i, j \in 1..Len(timers_) : timers_[i].id = timers_[j].id => i = j

\* C11: no callback is invoked earlier than its entry's deadline: the worker
\* removes an entry for execution only when the clock value it read is at
\* least the deadline under which the entry was stored, and the clock stays at
\* or above that deadline while the entry is being fired.
C11_NotBeforeDeadline ==
    /\ [][WorkerErases => (timers_[1].key <= now /\ it' = timers_[1].key)]_vars
    /\ [](InFlight => it <= now)

\* a callback runs at the very instant of its deadline, after the worker waited
C11_Witness == wpc = "in_callback" /\ it = now /\ it >= 1

\* C12: entries sharing a deadline are fired in the order of their insertion:
\* an insertion places the new node behind every node of equal deadline, no
\* step reorders the nodes that stay, and the worker removes the first node,
\* whose deadline no other node undercuts.
C12_TieBreakInsertionOrder ==
    /\ []UniqueIds
    /\ [][LET old  == StoreIds(timers_)
              new  == StoreIds(timers_')
              stay == old \cap new
          IN  /\ \A a, b \in stay :
                    Pos(timers_, a) < Pos(timers_, b)
                        => Pos(timers_', a) < Pos(timers_', b)
              /\ \A b \in new \ old : \A a \in stay :
                    timers_'[Pos(timers_', a)].key = timers_'[Pos(timers_', b)].key
                        => Pos(timers_', a) < Pos(timers_', b)
              /\ WorkerErases =>
                    /\ data'.id = timers_[1].id
                    /\ \A i \in 1..Len(timers_) : timers_[1].key <= timers_[i].key]_vars

\* of two one-shot timers with the same deadline the one inserted first has
\* been taken for firing, the other one is now the first of the store
C12_Witness ==
    /\ wpc = "unlocked" /\ timers_ # <<>>
    /\ timers_[1].key = it /\ data.id < timers_[1].id
    /\ data.repeat = 0 /\ timers_[1].repeat = 0

C14_ScheduleAfterShutdownRejected ==
    [][\A c \in Callers : (ScheduleReturns(c) /\ ~running_) => timers_' = timers_]_vars

\* C14 (amended): a schedule call that runs after shutdown has been signalled
\* is accepted like any other: it returns a fresh id and inserts its entry;
\* the entry is never fired.
C14_ScheduleAfterShutdownNeverFired ==
    /\ [][\A c \in Callers : (ScheduleReturns(c) /\ ~running_) =>
             /\ ret'[c].op = "schedule" /\ ret'[c].late
             /\ registered[ret'[c].id] = Unset
             /\ ret'[c].id \in StoreIds(timers_') \ StoreIds(timers_)
             /\ Len(timers_') = Len(timers_) + 1]_vars
    /\ [](\A c \in Callers : ret[c].late =>
             /\ ret[c].op = "schedule" /\ ~running_
             /\ invoked[ret[c].id] = 0
             /\ ~(InFlight /\ data.id = ret[c].id))

\* an entry inserted after the shutdown signal is due and still in the store,
\* never fired, when the destructor has returned
C14_Witness ==
    \E c \in Callers :
        /\ ret[c].late /\ dpc = "done"
        /\ ret[c].id \in StoreIds(timers_) /\ Due(ret[c].id)
        /\ invoked[ret[c].id] = 0

\* line 156 evaluates it->first + data.period
ReadsErasedKey == wpc = "unlocked" /\ wpc' = "su_lock"

\* C15: no timer is both executing its callback and present in the store:
\* while the callback of the entry with id X runs, the store holds no entry
\* with id X.
C15_NotExecutingAndStored ==
    ~(wpc = "in_callback" /\ data.id \in StoreIds(timers_))

\* C16: the worker does not hold the mutex while a callback is pending or
\* running; the mutex is then free or held by a thread inside one of the short
\* critical sections of schedule, cancel or the destructor, so a schedule or
\* cancel issued from the callback or from another thread gets the lock.
C16_CallbackOutsideLock ==
    wpc \in {"callback", "in_callback"} =>
        \/ mutex_ = "none"
        \/ mutex_ \in Callers /\ cpc[mutex_] \in {"s_locked", "c_locked"}
        \/ mutex_ = "owner" /\ dpc = "d_locked"

\* a caller is inside the critical section of cancel while a callback runs
C16_Witness ==
    /\ wpc = "in_callback"
    /\ \E c \in Callers : mutex_ = c /\ cpc[c] = "c_locked"

\* C17: a repeating entry is reinserted with the deadline of the entry just
\* removed plus its period.
C17_ReinsertAtDeadlinePlusPeriod ==
    [][Reinserts =>
          \E i \in 1..Len(timers_') :
              /\ timers_'[i].id = data.id
              /\ timers_'[i].key = it + data.period]_vars

\* the worker is blocked in cv_.wait / cv_.wait_until and has not been notified
Blocked == wpc \in {"wait", "wait_until"}

\* C18 (as claimed): whenever the worker is blocked with no notification
\* pending, either the store is empty and shutdown has not been signalled, or
\* the worker is in a timed wait whose target is the earliest deadline of the
\* store.
C18_BlockedOnCurrentTarget ==
    Blocked =>
        \/ timers_ = <<>> /\ running_ /\ wpc = "wait"
        \/ wpc = "wait_until" /\ timers_ # <<>> /\ target = timers_[1].key

\* C18 (amended): as above, except that between the destructor's release of
\* the lock and its notify_one the worker may still be blocked on an empty
\* store although running_ is already false.
C18_BlockedOnCurrentTargetOrStopping ==
    Blocked =>
        \/ timers_ = <<>> /\ wpc = "wait" /\ (running_ \/ dpc = "d_notify")
        \/ wpc = "wait_until" /\ timers_ # <<>> /\ target = timers_[1].key

\* the worker sleeps until the deadline of an entry that a schedule call
\* inserted in front of the one it was waiting for before
C18_Witness ==
    /\ wpc = "wait_until" /\ Len(timers_) = 2
    /\ timers_[1].id > timers_[2].id /\ timers_[1].key < timers_[2].key
    /\ target = timers_[1].key

\* the entry schedule() inserted for id is due and has not been fired
PendingDue(id) == id \in StoreIds(timers_) /\ invoked[id] = 0 /\ Due(id)

\* an endless timer other than id whose period is 0 is in the store or held
\* by the worker
ZeroPeriodEndless(id) ==
    \/ \E i \in 1..Len(timers_) :
          timers_[i].id # id /\ timers_[i].repeat < 0 /\ timers_[i].period = 0
    \/ InFlight /\ data.id # id /\ data.repeat < 0 /\ data.period = 0

\* C19 (as claimed): under fair scheduling and with terminating callbacks,
\* every entry inserted by schedule, once the clock has reached its deadline,
\* has its callback invoked unless it is cancelled or the service is shut down
\* first, whatever other timers are pending.
C19_EveryEntryFires ==
    \A id \in Ids :
        PendingDue(id) ~> (invoked[id] >= 1 \/ cancelTrue[id] >= 1 \/ ~running_)

\* C19 (amended): as above, unless an endless timer with period 0 is pending.
C19_EveryEntryFiresUnlessStarved ==
    \A id \in Ids :
        PendingDue(id) ~> (\/ invoked[id] >= 1 \/ cancelTrue[id] >= 1 \/ ~running_
                           \/ ZeroPeriodEndless(id))

\* a one-shot timer scheduled while an endless timer was pending has fired,
\* and the endless timer has fired twice and is pending again
C19_Witness ==
    \E id, j \in Ids :
        /\ j < id /\ registered[id] = 0 /\ invoked[id] = 1
        /\ Endless(j) /\ cancelTrue[j] = 0 /\ invoked[j] >= 2
        /\ j \in StoreIds(timers_)

\* C20: every read and every mutation of the store is made by a thread that
\* holds the mutex: the insertions of schedule and of the worker's
\* schedule_until, the removal by cancel, the worker's inspection and removal
\* of the earliest entry, and the worker's read of the fired entry's deadline.
C20_StoreUnderMutex ==
    [][/\ \A c \in Callers : (ScheduleReturns(c) \/ CancelReturns(c)) => mutex_ = c
       /\ (WorkerErases \/ Reinserts) => mutex_ = "worker"
       /\ timers_' # timers_ =>
             \/ \E c \in Callers : ScheduleReturns(c) \/ CancelReturns(c)
             \/ WorkerErases \/ Reinserts
       /\ ReadsErasedKey => mutex_ = "worker"]_vars

\* C21: an entry with repeat = 0 is out of the store from its removal by the
\* worker on, before its callback starts, and is never reinserted: its
\* callback is invoked at most once.
C21_OneShotFiresOnce ==
    /\ [](\A id \in Ids : registered[id] = 0 =>
             /\ invoked[id] <= 1
             /\ (InFlight /\ data.id = id) => id \notin StoreIds(timers_)
             /\ invoked[id] >= 1 => id \notin StoreIds(timers_))
    /\ [][Reinserts => registered[data.id] # 0]_vars
    /\ [][WorkerErases =>
             (registered[timers_[1].id] = 0 => invoked[timers_[1].id] = 0)]_vars

\* a one-shot timer has fired once, the clock has run to its end with the
\* worker idle on an empty store, and a cancel of its id has returned false
C21_Witness ==
    \E c \in Callers :
        /\ ret[c].op = "cancel" /\ ~ret[c].ok
        /\ registered[ret[c].id] = 0 /\ invoked[ret[c].id] = 1
        /\ cancelTrue[ret[c].id] = 0
        /\ now = MaxTime /\ wpc = "wait" /\ timers_ = <<>>

====
